---- MODULE Spec2Model ----
(***************************************************************************)
(* Model of meshmagick's hydrostatic equilibrium solver                    *)
(* (src/meshmagick/hydrostatics.py: Force, Hydrostatics) and of            *)
(* clip_by_plane, with its boundary-polygon stitching, and                 *)
(* Plane.point_distance (src/meshmagick/meshmagick.py).                    *)
(*                                                                         *)
(* Numbers.  The code works on floats; the model works on integers:        *)
(*  - lengths live on a grid of even integers, so that the centroid of a   *)
(*    cuboid hull and of its submerged part have integer coordinates;      *)
(*  - angles are counted in steps of two degrees, and the rotation by one  *)
(*    step is drawn as a quarter turn, for which the rotation matrix of    *)
(*    rotate() has integer entries;                                        *)
(*  - reltol is a fraction [num, den] and every "x / scale < reltol" test  *)
(*    is cross-multiplied;                                                 *)
(*  - the metacentric heights are kept multiplied by 12 * disp_volume      *)
(*    (> 0), which keeps their sign, the only thing the solver reads.      *)
(* The hull is a cuboid mesh given by two diagonally opposite vertices;    *)
(* the classes Mesh and MeshClipper are not part of the two source files   *)
(* and are modelled for such a hull.  The result of np.linalg.solve, the   *)
(* scalar Newton step of set_displacement rounded to the grid excepted,    *)
(* is any value of a bounded set, np.random.rand any admissible angle.     *)
(* The meshes cut by clip_by_plane have their vertices at the levels -2, 0 *)
(* and 2 over a square of side 4, the plane being z = 0: the intersections *)
(* of their edges with the plane then have integer coordinates.            *)
(***************************************************************************)
EXTENDS Integers, Sequences, FiniteSets, TLC

(***************************************************************************)
(* Bounds of the model                                                     *)
(***************************************************************************)
MaxCalls == 1          \* set_displacement / equilibrate calls per behaviour
MaxSets == 1           \* property assignments, add_force and reset calls per behaviour
MaxItermax == 3        \* max_iterations ranges over 1..MaxItermax
MaxRestart == 2        \* max_restart ranges over 0..MaxRestart
MaxForces == 1         \* forces registered by add_force
MaxVertices == 6       \* intersection vertices of a cut are numbered 1..MaxVertices
MaxRandom == 1         \* the random angles of a restart range over 0..MaxRandom

(***************************************************************************)
(* Vectors, matrices                                                       *)
(***************************************************************************)
Abs(a) == IF a < 0 THEN -a ELSE a
Min2(a, b) == IF a <= b THEN a ELSE b
Max2(a, b) == IF a >= b THEN a ELSE b

Dot(u, v) == u[1] * v[1] + u[2] * v[2] + u[3] * v[3]
MatVec(R, v) == << Dot(R[1], v), Dot(R[2], v), Dot(R[3], v) >>
Col(R, j) == << R[1][j], R[2][j], R[3][j] >>
MatMul(A, B) == [i \in 1..3 |-> [j \in 1..3 |-> Dot(A[i], Col(B, j))]]
Eye3 == << <<1, 0, 0>>, <<0, 1, 0>>, <<0, 0, 1>> >>
Cross(p, v) == << p[2] * v[3] - p[3] * v[2],
                  p[3] * v[1] - p[1] * v[3],
                  p[1] * v[2] - p[2] * v[1] >>

\* cos and sin of k quarter turns
Cos4(k) == CASE k % 4 = 0 -> 1 [] k % 4 = 2 -> -1 [] OTHER -> 0
Sin4(k) == CASE k % 4 = 1 -> 1 [] k % 4 = 3 -> -1 [] OTHER -> 0

\* rotate(V, rot): the matrix R of the angles rot = [phi, theta, psi]
RotMatrix(rot) ==
    LET cphi == Cos4(rot[1])  sphi == Sin4(rot[1])
        ctheta == Cos4(rot[2])  stheta == Sin4(rot[2])
        cpsi == Cos4(rot[3])  spsi == Sin4(rot[3])
    IN << << cpsi * ctheta, -spsi * cphi + cpsi * stheta * sphi,
             spsi * sphi + cpsi * cphi * stheta >>,
          << spsi * ctheta, cpsi * cphi + sphi * stheta * spsi,
             -cpsi * sphi + spsi * cphi * stheta >>,
          << -stheta, ctheta * sphi, ctheta * cphi >> >>

\* rotate(V, rot): every vertex is multiplied by R
rotate(V, rot) == [i \in DOMAIN V |-> MatVec(RotMatrix(rot), V[i])]

\* translate(V, P): every vertex is shifted by P
translate(V, P) == [i \in DOMAIN V |-> << V[i][1] + P[1], V[i][2] + P[2], V[i][3] + P[3] >>]

\* translate_1D(V, t, 'z')
translate_z(V, t) == translate(V, <<0, 0, t>>)

(***************************************************************************)
(* Force                                                                   *)
(***************************************************************************)
\* Force.update that rotates the value whatever the mode
ForceUpdateAnyMode(f, dz, rot) ==
    [f EXCEPT !.point = MatVec(rot, << f.point[1], f.point[2], f.point[3] + dz >>),
              !.value = MatVec(rot, f.value)]

\* Force.update(dz, rot)
ForceUpdate(f, dz, rot) ==
    LET p == MatVec(rot, << f.point[1], f.point[2], f.point[3] + dz >>)
    IN [f EXCEPT !.point = p,
                 !.value = IF f.mode = "relative" THEN MatVec(rot, f.value) ELSE f.value]

\* Force.update_xy that shifts x by dy and y by dx
ForceUpdateXYSwapped(f, dx, dy) ==
    [f EXCEPT !.point = << f.point[1] + dy, f.point[2] + dx, f.point[3] >>]

\* Force.update_xy(dx, dy)
ForceUpdateXY(f, dx, dy) ==
    [f EXCEPT !.point = << f.point[1] + dx, f.point[2] + dy, f.point[3] >>]

\* Force.hs_force
hs_force(f) ==
    LET moment == Cross(f.point, f.value)
    IN << f.value[3], moment[1], moment[2] >>

UpdateForces(fs, dz, rot) == [i \in DOMAIN fs |-> ForceUpdate(fs[i], dz, rot)]
UpdateForcesXY(fs, dx, dy) == [i \in DOMAIN fs |-> ForceUpdateXY(fs[i], dx, dy)]

(***************************************************************************)
(* Mesh and MeshClipper for a cuboid hull                                  *)
(***************************************************************************)
Lo(m) == << Min2(m[1][1], m[2][1]), Min2(m[1][2], m[2][2]), Min2(m[1][3], m[2][3]) >>
Hi(m) == << Max2(m[1][1], m[2][1]), Max2(m[1][2], m[2][2]), Max2(m[1][3], m[2][3]) >>

\* Mesh._compute_volume()
MeshVolume(m) == (Hi(m)[1] - Lo(m)[1]) * (Hi(m)[2] - Lo(m)[2]) * (Hi(m)[3] - Lo(m)[3])

\* the plane z = 0 cuts the hull: MeshClipper finds a closed waterline
Straddles(m) == Lo(m)[3] < 0 /\ Hi(m)[3] > 0

\* MeshClipper.closed_polygons: the waterline of the hull, a closed loop whose
\* last vertex repeats the first, its normal pointing upward
ClosedPolygons(m) ==
    << << << Lo(m)[1], Lo(m)[2] >>, << Hi(m)[1], Lo(m)[2] >>,
          << Hi(m)[1], Hi(m)[2] >>, << Lo(m)[1], Hi(m)[2] >>,
          << Lo(m)[1], Lo(m)[2] >> >> >>

\* MeshClipper.clipped_mesh: the part of the hull below z = 0
ClippedVolume(m) == (Hi(m)[1] - Lo(m)[1]) * (Hi(m)[2] - Lo(m)[2]) * (0 - Lo(m)[3])
ClippedCenter(m) == << (Lo(m)[1] + Hi(m)[1]) \div 2, (Lo(m)[2] + Hi(m)[2]) \div 2,
                       Lo(m)[3] \div 2 >>

(***************************************************************************)
(* Hydrostatics._update_hydrostatic_properties                             *)
(***************************************************************************)
\* the second term adds the product of the abscissas where it is to be taken off
EdgeTermsSlip(xi, yi, xii, yii) ==
    LET dx == xii - xi
        dy == yii - yi
        px == xi + xii
        py == yi + yii
        a == xi * xi + xii * xii
    IN << dy * px,
          dy * (px * px + xi * xii),
          dx * (py * py - yi * yii),
          dy * (py * a + 2 * px * (xi * yi + xii * yii)),
          dy * a * px,
          dx * (yi * yi + yii * yii) * py >>

\* the six per-edge terms of the polygon integrals
EdgeTerms(xi, yi, xii, yii) ==
    LET dx == xii - xi
        dy == yii - yi
        px == xi + xii
        py == yi + yii
        a == xi * xi + xii * xii
    IN << dy * px,
          dy * (px * px - xi * xii),
          dx * (py * py - yi * yii),
          dy * (py * a + 2 * px * (xi * yi + xii * yii)),
          dy * a * px,
          dx * (yi * yi + yii * yii) * py >>

Add6(s, t) == [k \in 1..6 |-> s[k] + t[k]]
Zero6 == [k \in 1..6 |-> 0]

\* the sums over the edges i, i+1, ... of one polygon
RECURSIVE PolygonSums(_, _)
PolygonSums(poly, i) ==
    IF i >= Len(poly) THEN Zero6
    ELSE Add6(EdgeTerms(poly[i][1], poly[i][2], poly[i + 1][1], poly[i + 1][2]),
              PolygonSums(poly, i + 1))

\* the sums over all the polygons, before their scaling by 2, 6, -6, 24, 12, -12
RECURSIVE SigmaSums(_, _)
SigmaSums(polygons, j) ==
    IF j > Len(polygons) THEN Zero6
    ELSE Add6(PolygonSums(polygons[j], 1), SigmaSums(polygons, j + 1))

PolyX(polygons) == {polygons[j][i][1] : j \in DOMAIN polygons, i \in 1..5}
PolyY(polygons) == {polygons[j][i][2] : j \in DOMAIN polygons, i \in 1..5}
SetMin(S) == CHOOSE x \in S : \A y \in S : x <= y
SetMax(S) == CHOOSE x \in S : \A y \in S : x >= y

NoClipper == << >>

\* hs_data after _update_hydrostatic_properties: computed from the cached
\* clipper when there is one, from a clipper of the current mesh otherwise.
\* c is the mesh the clipper holds.
HsData(c, zg, rho) ==
    LET polygons == ClosedPolygons(c)
        sums == SigmaSums(polygons, 1)
        disp_volume == ClippedVolume(c)
        zb == ClippedCenter(c)[3]
        a == zg - zb
    IN [clipper |-> << c >>,
        disp_volume |-> disp_volume,
        disp_mass |-> rho * disp_volume,
        buoy_center |-> ClippedCenter(c),
        waterplane_area |-> sums[1] \div 2,
        gm_x |-> (0 - sums[6]) - 12 * disp_volume * a,
        gm_y |-> sums[5] - 12 * disp_volume * a,
        lwl |-> SetMax(PolyX(polygons)) - SetMin(PolyX(polygons)),
        breadth |-> SetMax(PolyY(polygons)) - SetMin(PolyY(polygons))]

\* the mesh _update_hydrostatic_properties works on
ClipperMesh(hs, m) == IF hs.clipper = NoClipper THEN m ELSE hs.clipper[1]

\* Hydrostatics._reinit_clipper
ReinitClipper(hs) == [hs EXCEPT !.clipper = NoClipper]

\* Hydrostatics._update_hydrostatic_properties
UpdateHs(hs, m, gc, rho) == HsData(ClipperMesh(hs, m), gc[3], rho)

\* the clipping raises: the mesh does not cut the free surface
UpdateRaises(hs, m) == ~Straddles(ClipperMesh(hs, m))

(***************************************************************************)
(* Residual, equilibrium and stability tests                               *)
(***************************************************************************)
RECURSIVE SumHsForces(_, _)
SumHsForces(fs, i) ==
    IF i > Len(fs) THEN << 0, 0, 0 >>
    ELSE LET h == hs_force(fs[i])
             r == SumHsForces(fs, i + 1)
         IN << h[1] + r[1], h[2] + r[2], h[3] + r[3] >>

\* the residual of the hull alone, without the loop over additional_forces
ResidualOfHull(hs, gc, vmg, vrhog, fs) ==
    LET rhog_v == vrhog * hs.disp_volume
        xb == hs.buoy_center[1]
        yb == hs.buoy_center[2]
    IN << rhog_v - vmg,
          rhog_v * yb - vmg * gc[2],
          (0 - rhog_v) * xb + vmg * gc[1] >>

\* Hydrostatics.residual
Residual(hs, gc, vmg, vrhog, fs) ==
    LET rhog_v == vrhog * hs.disp_volume
        xb == hs.buoy_center[1]
        yb == hs.buoy_center[2]
        add == SumHsForces(fs, 1)
    IN << rhog_v - vmg + add[1],
          rhog_v * yb - vmg * gc[2] + add[2],
          (0 - rhog_v) * xb + vmg * gc[1] + add[3] >>

\* Hydrostatics.scale
Scale(hs, vmg) == << vmg, vmg * hs.breadth, vmg * hs.lwl >>

\* np.all(np.fabs(residual / scale) < reltol), with reltol = num / den
Converged(res, scale, reltol) ==
    \A k \in 1..3 : Abs(res[k]) * reltol.den < reltol.num * Abs(scale[k])

\* Hydrostatics.is_at_equilibrium
IsAtEquilibrium(hs, gc, vmg, vrhog, fs, reltol) ==
    Converged(Residual(hs, gc, vmg, vrhog, fs), Scale(hs, vmg), reltol)

\* isstable that is content with one positive metacentric height
IsStableEither(hs) == hs.gm_y > 0 \/ hs.gm_x > 0

\* Hydrostatics.isstable
IsStable(hs) == hs.gm_y > 0 /\ hs.gm_x > 0

(***************************************************************************)
(* Inputs                                                                  *)
(***************************************************************************)
\* conversion from tons to kg of the mass setter
TonKg == 1000

\* the hull given to the constructor: 4 x 4 x 6, draught 4
InitMesh == << << -2, -2, -4 >>, << 2, 2, 2 >> >>
\* gravity centres given to the constructor and to the gravity_center setter
CogInputs == { << 0, 0, -2 >>, << 0, 0, 0 >>, << 0, 2, -2 >> }
\* masses (tons) given to the mass setter and to set_displacement; the hull
\* displaces 64 t at its initial draught and 96 t fully submerged
MassInputs == { 32, 40, 64, 100 }
\* mass arguments of the constructor, in thousandths of a ton; 0 is None
InitMassInputs == { 0, 40 }
RhoInputs == { 1000, 500 }
GravityInputs == { 10, 5 }
ReltolInputs == { [num |-> 1, den |-> 4], [num |-> 3, den |-> 4] }
\* forces given to add_force
ForceInputs == { [point |-> << 0, 0, 2 >>, value |-> << 0, 1000, 0 >>, mode |-> "relative"],
                 [point |-> << 2, 0, 0 >>, value |-> << 0, 1000, 0 >>, mode |-> "absolute"] }

\* np.random.rand(2) * math.pi: angles in [0, pi)
RandomAngles == 0..MaxRandom
\* np.linalg.solve(stiffness_matrix, residual): [dz, thetax, thetay], dz on the
\* grid and the angles in steps; along each axis a value beyond the relax cap
\* and a value within it, of both signs
SolveInputs == { << 0, 0, 0 >>, << -4, 0, 0 >>, << 2, 0, 0 >>, << 0, -2, 0 >>, << 0, 1, 0 >>,
                 << 0, 0, -2 >>, << 0, 0, 1 >>, << 4, 2, 2 >>, << -2, -1, -1 >> }

(***************************************************************************)
(* State                                                                   *)
(***************************************************************************)
VARIABLES
    mesh,               \* self.mesh: two opposite vertices of the hull
    backup,             \* self.backup: init_mesh, gravity_center
    gc_shared,          \* backup['gravity_center'] and _gravity_center are one array
    gravity_center,     \* self._gravity_center
    rho_water,          \* self._rho_water
    gravity,            \* self._gravity
    rhog,               \* self._rhog
    mass,               \* self._mass (kg)
    mg,                 \* self._mg
    solver_parameters,  \* self._solver_parameters
    hs_data,            \* self.hs_data
    rotation,           \* self._rotation
    additional_forces,  \* self.additional_forces
    pc,                 \* "idle", "disp", "eq", "norm", "error"
    loc,                \* the locals of set_displacement and equilibrate
    ret,                \* how the last call ended: [op, outcome, code]
    ncalls,             \* set_displacement / equilibrate calls so far
    nsets,              \* property assignments, add_force and reset calls so far
    stitch,             \* clip_by_plane: the locals of the boundary stitching
    clip,               \* clip_by_plane: the arguments, the locals and what it returned
    calc                \* a call of Plane.point_distance or of the waterplane sums

hvars == << mesh, backup, gc_shared, gravity_center, rho_water, gravity, rhog, mass, mg,
            solver_parameters, hs_data, rotation, additional_forces, pc, loc, ret, ncalls,
            nsets >>
vars == << hvars, stitch, clip, calc >>

\* two fields are not locals of the code: restart_iter records the value iter had
\* at the most recent random restart of the call, 0 before the first one; solved
\* records the correction [dz, thetax, thetay] as computed, before its relaxation
NoLocals == [dz |-> 0, thetax |-> 0, thetay |-> 0, iter |-> 0, nb_restart |-> 0,
             unstable_config |-> FALSE, code |-> -1, from_equilibrate |-> FALSE,
             restart_iter |-> 0, solved |-> << 0, 0, 0 >>]
NoReturn == [op |-> "none", outcome |-> "none", code |-> -1]
SetterReturn == [op |-> "setter", outcome |-> "ok", code |-> -1]
\* the same for the setter of an intrinsic property: mass, gravity centre, zg,
\* rho_water, gravity
IntrinsicReturn == [op |-> "intrinsic", outcome |-> "ok", code |-> -1]

\* the mass the constructor stores: disp_mass without a mass argument; with
\* one, mass * 1000. handed to the mass setter, which multiplies by 1000 again.
\* The argument is counted in thousandths of a ton, 0 standing for None.
InitMass(arg, disp_mass) == IF arg = 0 THEN disp_mass ELSE arg * TonKg

\* Hydrostatics.__init__(mesh, cog, mass), for the arguments it accepts. The field
\* supplied of backup is not an entry of the dict of the code: it records the
\* gravity centre the user gave last, to the constructor or to the setter
Construct(cog, arg) ==
        /\ mesh = InitMesh
        /\ backup = [init_mesh |-> InitMesh, gravity_center |-> cog, supplied |-> cog]
        /\ gc_shared = FALSE
        /\ gravity_center = cog
        /\ rho_water = 1000
        /\ gravity = 10
        /\ rhog = 1000 * 10
        /\ solver_parameters = [reltol |-> [num |-> 1, den |-> 4],
                                itermax |-> MaxItermax,
                                max_nb_restart |-> MaxRestart,
                                theta_relax |-> 2,
                                z_relax |-> 2,
                                stop_at_unstable |-> FALSE]
        /\ hs_data = HsData(InitMesh, cog[3], 1000)
        /\ mass = InitMass(arg, HsData(InitMesh, cog[3], 1000).disp_mass)
        /\ mg = InitMass(arg, HsData(InitMesh, cog[3], 1000).disp_mass) * 10
        /\ rotation = Eye3
        /\ additional_forces = << >>
        /\ pc = "idle"
        /\ loc = NoLocals
        /\ ret = NoReturn
        /\ ncalls = 0
        /\ nsets = 0

\* the part of the object a setter that only configures the solver leaves alone
BodyVars == << mesh, backup, gc_shared, gravity_center, rho_water, gravity, rhog, mass, mg,
               hs_data, rotation, additional_forces >>

(***************************************************************************)
(* Property setters                                                        *)

(***************************************************************************)
\* one more property assignment or add_force call; no clipping is involved
Counted == nsets < MaxSets /\ nsets' = nsets + 1 /\ UNCHANGED << stitch, clip, calc >>
\* a step of set_displacement or equilibrate, or a reset call
Uncounted == UNCHANGED << nsets, stitch, clip, calc >>

\* Hydrostatics._max_displacement, is_sinking
MaxDisplacement(rho, m) == rho * MeshVolume(m)
IsSinking(vmass, rho, m) == vmass > MaxDisplacement(rho, m)

\* the gravity setter without its line 159: the weight keeps the old gravity
SetGravityStaleWeight(value) ==
    /\ pc = "idle"
    /\ Counted
    /\ gravity' = value
    /\ rhog' = rho_water * value
    /\ IF UpdateRaises(hs_data, mesh)
       THEN /\ pc' = "error"
            /\ UNCHANGED hs_data
       ELSE /\ hs_data' = UpdateHs(hs_data, mesh, gravity_center, rho_water)
            /\ UNCHANGED pc
    /\ ret' = IntrinsicReturn
    /\ UNCHANGED << mesh, backup, gc_shared, gravity_center, rho_water, mass, mg,
                    solver_parameters, rotation, additional_forces, loc, ncalls >>
\* gravity.setter
SetGravity(value) ==
    /\ pc = "idle"
    /\ Counted
    /\ gravity' = value
    /\ rhog' = rho_water * value
    /\ mg' = mass * value
    /\ IF UpdateRaises(hs_data, mesh)
       THEN /\ pc' = "error"
            /\ UNCHANGED hs_data
       ELSE /\ hs_data' = UpdateHs(hs_data, mesh, gravity_center, rho_water)
            /\ UNCHANGED pc
    /\ ret' = IntrinsicReturn
    /\ UNCHANGED << mesh, backup, gc_shared, gravity_center, rho_water, mass,
                    solver_parameters, rotation, additional_forces, loc, ncalls >>

\* rho_water.setter
SetRhoWater(value) ==
    /\ pc = "idle"
    /\ Counted
    /\ rho_water' = value
    /\ rhog' = value * gravity
    /\ IF UpdateRaises(hs_data, mesh)
       THEN /\ pc' = "error"
            /\ UNCHANGED hs_data
       ELSE /\ hs_data' = UpdateHs(hs_data, mesh, gravity_center, value)
            /\ UNCHANGED pc
    /\ ret' = IntrinsicReturn
    /\ UNCHANGED << mesh, backup, gc_shared, gravity_center, gravity, mass, mg,
                    solver_parameters, rotation, additional_forces, loc, ncalls >>

\* mass.setter: the new mass is stored before the sinking test
SetMass(value) ==
    /\ pc = "idle"
    /\ Counted
    /\ mass' = value * TonKg
    /\ mg' = value * TonKg * gravity
    /\ ret' = IF IsSinking(value * TonKg, rho_water, mesh)
              THEN [IntrinsicReturn EXCEPT !.outcome = "ValueError"]
              ELSE IntrinsicReturn
    /\ UNCHANGED << mesh, backup, gc_shared, gravity_center, rho_water, gravity, rhog,
                    solver_parameters, hs_data, rotation, additional_forces, pc, loc, ncalls >>

\* gravity_center.setter: backup and _gravity_center become the same array
SetGravityCenter(value) ==
    /\ pc = "idle"
    /\ Counted
    /\ backup' = [backup EXCEPT !.gravity_center = value, !.supplied = value]
    /\ gravity_center' = value
    /\ gc_shared' = TRUE
    /\ IF UpdateRaises(hs_data, mesh)
       THEN /\ pc' = "error"
            /\ UNCHANGED hs_data
       ELSE /\ hs_data' = UpdateHs(hs_data, mesh, value, rho_water)
            /\ UNCHANGED pc
    /\ ret' = IntrinsicReturn
    /\ UNCHANGED << mesh, rho_water, gravity, rhog, mass, mg, solver_parameters,
                    rotation, additional_forces, loc, ncalls >>

\* zg.setter: the last entry of _gravity_center is written in place, and with
\* it that of the backup when the two are one array
SetZg(value) ==
    /\ pc = "idle"
    /\ Counted
    /\ gravity_center' = [gravity_center EXCEPT ![3] = value]
    /\ backup' = IF gc_shared THEN [backup EXCEPT !.gravity_center[3] = value] ELSE backup
    /\ IF UpdateRaises(hs_data, mesh)
       THEN /\ pc' = "error"
            /\ UNCHANGED hs_data
       ELSE /\ hs_data' = UpdateHs(hs_data, mesh, [gravity_center EXCEPT ![3] = value],
                                   rho_water)
            /\ UNCHANGED pc
    /\ ret' = IntrinsicReturn
    /\ UNCHANGED << mesh, gc_shared, rho_water, gravity, rhog, mass, mg, solver_parameters,
                    rotation, additional_forces, loc, ncalls >>

\* a setter of a solver parameter: the assert lets the value through, or raises
\* and leaves the parameters as they were
SetSolverParameter(accepted, stored) ==
    /\ pc = "idle"
    /\ Counted
    /\ solver_parameters' = IF accepted THEN stored ELSE solver_parameters
    /\ ret' = IF accepted THEN SetterReturn
              ELSE [SetterReturn EXCEPT !.outcome = "AssertionError"]
    /\ UNCHANGED << BodyVars, pc, loc, ncalls >>

\* reltol.setter: assert 0. < value < 1.
SetReltol(value) ==
    SetSolverParameter(value.num > 0 /\ value.num < value.den,
                       [solver_parameters EXCEPT !.reltol = value])

\* theta_relax.setter: assert 0. < value < 10.
SetThetaRelax(value) ==
    SetSolverParameter(value > 0 /\ value < 10,
                       [solver_parameters EXCEPT !.theta_relax = value])

\* z_relax.setter: assert 0. < value < 1., on the grid on which the 0.1 of the
\* constructor is 2
SetZRelax(value) ==
    SetSolverParameter(value > 0 /\ value < 20,
                       [solver_parameters EXCEPT !.z_relax = value])

\* max_iterations.setter: assert value > 0.
SetMaxIterations(value) ==
    SetSolverParameter(value > 0, [solver_parameters EXCEPT !.itermax = value])

\* max_restart.setter: assert value >= 0.
SetMaxRestart(value) ==
    SetSolverParameter(value >= 0, [solver_parameters EXCEPT !.max_nb_restart = value])

\* allow_unstable.setter
SetAllowUnstable(value) ==
    /\ pc = "idle"
    /\ Counted
    /\ solver_parameters' = [solver_parameters EXCEPT !.stop_at_unstable = value]
    /\ ret' = SetterReturn
    /\ UNCHANGED << BodyVars, pc, loc, ncalls >>

\* Hydrostatics.get_gravity_force
get_gravity_force ==
    [point |-> gravity_center, value |-> << 0, 0, 0 - mass * gravity >>, mode |-> "absolute"]

\* Hydrostatics.get_buoyancy_force
get_buoyancy_force ==
    [point |-> hs_data.buoy_center,
     value |-> << 0, 0, rho_water * gravity * hs_data.disp_volume >>,
     mode |-> "absolute"]

\* Hydrostatics.add_force
AddForce(force) ==
    /\ pc = "idle"
    /\ Counted
    /\ Len(additional_forces) < MaxForces
    /\ additional_forces' = Append(additional_forces, force)
    /\ ret' = SetterReturn
    /\ UNCHANGED << mesh, backup, gc_shared, gravity_center, rho_water, gravity, rhog, mass,
                    mg, solver_parameters, hs_data, rotation, pc, loc, ncalls >>

\* Hydrostatics.reset
Reset ==
    /\ pc = "idle"
    /\ Uncounted
    /\ mesh' = backup.init_mesh
    /\ gravity_center' = backup.gravity_center
    /\ gc_shared' = FALSE
    /\ IF ~Straddles(backup.init_mesh)
       THEN /\ pc' = "error"
            /\ hs_data' = ReinitClipper(hs_data)
       ELSE /\ hs_data' = UpdateHs(ReinitClipper(hs_data), backup.init_mesh,
                                   backup.gravity_center, rho_water)
            /\ UNCHANGED pc
    /\ rotation' = Eye3
    /\ ret' = SetterReturn
    /\ UNCHANGED << backup, rho_water, gravity, rhog, mass, mg, solver_parameters,
                    additional_forces, loc, ncalls >>

(***************************************************************************)
(* Hydrostatics.set_displacement                                           *)
(***************************************************************************)
\* the relaxation with the cap in place of math.copysign(cap, v)
RelaxUnsigned(v, cap) == IF Abs(v) > cap THEN cap ELSE v
\* math.copysign(cap, v) when math.fabs(v) > cap
Relax(v, cap) == IF Abs(v) > cap THEN (IF v < 0 THEN 0 - cap ELSE cap) ELSE v

\* math.radians, in angular steps
Radians(deg) == deg \div 2

\* a / b for b > 0, rounded towards zero onto the grid of even integers
GridQuotient(a, b) == IF a >= 0 THEN 2 * (a \div (2 * b)) ELSE 0 - 2 * ((0 - a) \div (2 * b))

\* the mass property read in tons
MassTons == mass \div TonKg

\* self._gravity_center[2] += dz, in place: the backup follows when it is the same array
ShiftBackupZ(dz) ==
    IF gc_shared THEN [backup EXCEPT !.gravity_center[3] = @ + dz] ELSE backup

\* set_displacement(disp): the mass setter, then the locals of the loop
CallSetDisplacement(disp) ==
    /\ pc = "idle"
    /\ Uncounted
    /\ ncalls < MaxCalls
    /\ ncalls' = ncalls + 1
    /\ mass' = disp * TonKg
    /\ mg' = disp * TonKg * gravity
    /\ IF IsSinking(disp * TonKg, rho_water, mesh)
       THEN /\ ret' = [op |-> "set_displacement", outcome |-> "ValueError", code |-> -1]
            /\ UNCHANGED << pc, loc >>
       ELSE /\ ret' = [op |-> "set_displacement", outcome |-> "running", code |-> -1]
            /\ pc' = "disp"
            /\ loc' = NoLocals
    /\ UNCHANGED << mesh, backup, gc_shared, gravity_center, rho_water, gravity, rhog,
                    solver_parameters, hs_data, rotation, additional_forces >>

\* the return of set_displacement: to its caller equilibrate, or to the user
DispReturn ==
    IF loc.from_equilibrate
    THEN /\ pc' = "eq"
         /\ loc' = NoLocals
         /\ UNCHANGED ret
    ELSE /\ pc' = "idle"
         /\ loc' = NoLocals
         /\ ret' = [ret EXCEPT !.outcome = "ok"]

\* one pass of the loop of set_displacement with iter == itermax
DispExhausted ==
    /\ pc = "disp"
    /\ Uncounted
    /\ loc.iter = solver_parameters.itermax
    /\ DispReturn
    /\ UNCHANGED << BodyVars, solver_parameters, ncalls >>

\* one pass of the loop of set_displacement
DispStep ==
    /\ pc = "disp"
    /\ Uncounted
    /\ loc.iter # solver_parameters.itermax
    /\ LET m1 == translate_z(mesh, loc.dz)
           gc1 == [gravity_center EXCEPT ![3] = @ + loc.dz]
           fs1 == UpdateForces(additional_forces, loc.dz, Eye3)
           hs1 == HsData(m1, gc1[3], rho_water)
           residual == Residual(hs1, gc1, mg, rhog, fs1)[1]
           dz1 == GridQuotient(residual, rhog * hs1.waterplane_area)
       IN /\ mesh' = m1
          /\ gravity_center' = gc1
          /\ backup' = ShiftBackupZ(loc.dz)
          /\ additional_forces' = fs1
          /\ IF ~Straddles(m1)
             THEN /\ hs_data' = ReinitClipper(hs_data)
                  /\ pc' = "error"
                  /\ ret' = [ret EXCEPT !.outcome = "Exception"]
                  /\ UNCHANGED loc
             ELSE /\ hs_data' = hs1
                  /\ IF Abs(residual) * solver_parameters.reltol.den
                          < solver_parameters.reltol.num * Abs(mg)
                     THEN DispReturn
                     ELSE /\ loc' = [loc EXCEPT !.dz = Relax(dz1, solver_parameters.z_relax),
                                                !.solved = << dz1, 0, 0 >>,
                                                !.iter = @ + 1]
                          /\ UNCHANGED << pc, ret >>
    /\ UNCHANGED << gc_shared, rho_water, gravity, rhog, mass, mg, solver_parameters,
                    rotation, ncalls >>

(***************************************************************************)
(* Hydrostatics.equilibrate                                                *)
(***************************************************************************)
\* equilibrate(init_disp): set_displacement(self.mass) first when init_disp
CallEquilibrate(init_disp) ==
    /\ pc = "idle"
    /\ Uncounted
    /\ ncalls < MaxCalls
    /\ ncalls' = ncalls + 1
    /\ IF init_disp
       THEN /\ mass' = MassTons * TonKg
            /\ mg' = MassTons * TonKg * gravity
            /\ IF IsSinking(MassTons * TonKg, rho_water, mesh)
               THEN /\ ret' = [op |-> "equilibrate", outcome |-> "ValueError", code |-> -1]
                    /\ UNCHANGED << pc, loc >>
               ELSE /\ ret' = [op |-> "equilibrate", outcome |-> "running", code |-> -1]
                    /\ pc' = "disp"
                    /\ loc' = [NoLocals EXCEPT !.from_equilibrate = TRUE]
       ELSE /\ ret' = [op |-> "equilibrate", outcome |-> "running", code |-> -1]
            /\ pc' = "eq"
            /\ loc' = NoLocals
            /\ UNCHANGED << mass, mg >>
    /\ UNCHANGED << mesh, backup, gc_shared, gravity_center, rho_water, gravity, rhog,
                    solver_parameters, hs_data, rotation, additional_forces >>

\* the locals z_relax, theta_relax_x and theta_relax_y of equilibrate: read from
\* the solver parameters before the loop and not assigned again
RelaxCaps == << solver_parameters.z_relax, Radians(solver_parameters.theta_relax),
                Radians(solver_parameters.theta_relax) >>

\* iter is only compared for equality with (nb_restart + 1) * (itermax - 1), which
\* stays below IterCap: once there, the counter is kept there
IterCap == (solver_parameters.max_nb_restart + 1) * solver_parameters.itermax + 1
NextIter(i) == IF i >= IterCap THEN i ELSE i + 1

\* the test at the top of the loop without its unstable_config operand
NeedRestartBudgetOnly ==
    loc.iter = (loc.nb_restart + 1) * (solver_parameters.itermax - 1)

\* the test at the top of the loop: a restart is due
NeedRestart ==
    \/ loc.unstable_config
    \/ loc.iter = (loc.nb_restart + 1) * (solver_parameters.itermax - 1)

\* a restart is left
CanRestart == loc.nb_restart < solver_parameters.max_nb_restart - 1

\* the body before a pass
Body == [mesh |-> mesh, gc |-> gravity_center, bgc |-> backup.gravity_center,
         shared |-> gc_shared, rot |-> rotation, fs |-> additional_forces]

\* the random restart: the mesh, the gravity centre and the forces are rotated
RandomRestart(b, rand) ==
    LET rot_matrix == RotMatrix(<< rand[1], rand[2], 0 >>)
    IN [mesh |-> rotate(b.mesh, << rand[1], rand[2], 0 >>),
        gc |-> MatVec(rot_matrix, b.gc),
        bgc |-> b.bgc,
        shared |-> FALSE,
        rot |-> MatMul(rot_matrix, b.rot),
        fs |-> UpdateForces(b.fs, 0, rot_matrix)]

\* the transformation of a pass: translation along z, then rotation
ApplyTransformation(b, dz, thetax, thetay) ==
    LET rot_matrix == RotMatrix(<< thetax, thetay, 0 >>)
    IN [mesh |-> rotate(translate_z(b.mesh, dz), << thetax, thetay, 0 >>),
        gc |-> MatVec(rot_matrix, << b.gc[1], b.gc[2], b.gc[3] + dz >>),
        bgc |-> IF b.shared THEN [b.bgc EXCEPT ![3] = @ + dz] ELSE b.bgc,
        shared |-> FALSE,
        rot |-> MatMul(rot_matrix, b.rot),
        fs |-> UpdateForces(b.fs, dz, rot_matrix)]

\* the correction a pass applies: none after a restart
PassDz == IF NeedRestart THEN 0 ELSE loc.dz
PassThetax == IF NeedRestart THEN 0 ELSE loc.thetax
PassThetay == IF NeedRestart THEN 0 ELSE loc.thetay
\* the body after the restart of a pass, if one is due
AfterRestart(rand) == IF NeedRestart THEN RandomRestart(Body, rand) ELSE Body
\* the body after the transformation of a pass
AfterTransformation(rand) ==
    ApplyTransformation(AfterRestart(rand), PassDz, PassThetax, PassThetay)
\* _update_hydrostatic_properties raises, after the restart or after the transformation
PassRaises(rand) ==
    \/ ~Straddles(AfterRestart(rand).mesh)
    \/ ~Straddles(AfterTransformation(rand).mesh)
\* the locals at the start of the transformation
PassLocals == [loc EXCEPT !.unstable_config = FALSE,
                          !.nb_restart = IF NeedRestart THEN @ + 1 ELSE @,
                          !.restart_iter = IF NeedRestart THEN loc.iter ELSE @,
                          !.solved = IF NeedRestart THEN << 0, 0, 0 >> ELSE @,
                          !.dz = PassDz, !.thetax = PassThetax, !.thetay = PassThetay]
\* the object after the transformation b of a pass
PassBody(b) ==
    /\ mesh' = b.mesh
    /\ gravity_center' = b.gc
    /\ backup' = [backup EXCEPT !.gravity_center = b.bgc]
    /\ gc_shared' = FALSE
    /\ rotation' = b.rot
    /\ additional_forces' = b.fs
    /\ UNCHANGED << rho_water, gravity, rhog, mass, mg, solver_parameters, ncalls >>

\* a restart is due and none is left: code 0
EqGiveUp ==
    /\ pc = "eq"
    /\ Uncounted
    /\ NeedRestart /\ ~CanRestart
    /\ loc' = [loc EXCEPT !.unstable_config = FALSE, !.code = 0]
    /\ pc' = "norm"
    /\ UNCHANGED << BodyVars, solver_parameters, ret, ncalls >>

\* the clipping raises in the restart, before the forces are rotated
RestartRaises(rand) == NeedRestart /\ ~Straddles(AfterRestart(rand).mesh)

\* a pass in which the clipping raises: in the restart, or after the transformation
EqRaise(rand) ==
    /\ IF RestartRaises(rand)
       THEN /\ PassBody([AfterRestart(rand) EXCEPT !.fs = additional_forces])
            /\ loc' = [loc EXCEPT !.unstable_config = FALSE, !.nb_restart = @ + 1,
                                  !.restart_iter = loc.iter]
       ELSE /\ PassBody(AfterTransformation(rand))
            /\ loc' = PassLocals
    /\ hs_data' = ReinitClipper(hs_data)
    /\ pc' = "error"
    /\ ret' = [ret EXCEPT !.outcome = "Exception"]

\* a pass that reaches a stable equilibrium: code 1
EqStable(b, hs) ==
    /\ IsStable(hs)
    /\ PassBody(b)
    /\ hs_data' = hs
    /\ loc' = [PassLocals EXCEPT !.code = 1]
    /\ pc' = "norm"
    /\ UNCHANGED ret

\* a pass that reaches an unstable equilibrium and stops there: code 2
EqUnstableStop(b, hs) ==
    /\ ~IsStable(hs)
    /\ solver_parameters.stop_at_unstable
    /\ PassBody(b)
    /\ hs_data' = hs
    /\ loc' = [PassLocals EXCEPT !.code = 2]
    /\ pc' = "norm"
    /\ UNCHANGED ret

\* a pass that reaches an unstable equilibrium and asks for a restart
EqUnstableContinue(b, hs) ==
    /\ ~IsStable(hs)
    /\ ~solver_parameters.stop_at_unstable
    /\ PassBody(b)
    /\ hs_data' = hs
    /\ loc' = [PassLocals EXCEPT !.unstable_config = TRUE, !.iter = NextIter(@)]
    /\ UNCHANGED << pc, ret >>

\* a pass that has not converged: the correction is solved for and relaxed
EqCorrect(b, hs) ==
    /\ PassBody(b)
    /\ hs_data' = hs
    /\ \E solved \in SolveInputs :
          loc' = [PassLocals EXCEPT
                    !.dz = Relax(solved[1], solver_parameters.z_relax),
                    !.thetax = Relax(solved[2], Radians(solver_parameters.theta_relax)),
                    !.thetay = Relax(solved[3], Radians(solver_parameters.theta_relax)),
                    !.solved = solved,
                    !.iter = NextIter(@)]
    /\ UNCHANGED << pc, ret >>

\* one pass of the loop of equilibrate that does not give up; rand are the
\* angles it draws if it restarts
EqPass(rand) ==
    /\ pc = "eq"
    /\ Uncounted
    /\ NeedRestart => CanRestart
    /\ ~NeedRestart => rand = << 0, 0 >>
    /\ LET b == AfterTransformation(rand)
           hs == HsData(b.mesh, b.gc[3], rho_water)
           residual == Residual(hs, b.gc, mg, rhog, b.fs)
           converged == Converged(residual, Scale(hs, mg), solver_parameters.reltol)
       IN IF PassRaises(rand) THEN EqRaise(rand)
          ELSE IF converged
               THEN EqStable(b, hs) \/ EqUnstableStop(b, hs) \/ EqUnstableContinue(b, hs)
               ELSE EqCorrect(b, hs)

\* after the loop: xcog and ycog are zeroed, and equilibrate returns its code
Normalise ==
    /\ pc = "norm"
    /\ Uncounted
    /\ mesh' = translate(mesh, << 0 - gravity_center[1], 0 - gravity_center[2], 0 >>)
    /\ hs_data' = [hs_data EXCEPT !.buoy_center =
                     << @[1] - gravity_center[1], @[2] - gravity_center[2], @[3] >>]
    /\ additional_forces' = UpdateForcesXY(additional_forces,
                                           0 - gravity_center[1], 0 - gravity_center[2])
    /\ gravity_center' = << 0, 0, gravity_center[3] >>
    /\ backup' = IF gc_shared
                 THEN [backup EXCEPT !.gravity_center = << 0, 0, gravity_center[3] >>]
                 ELSE backup
    /\ pc' = "idle"
    /\ ret' = [op |-> "equilibrate", outcome |-> "returned", code |-> loc.code]
    /\ loc' = NoLocals
    /\ UNCHANGED << gc_shared, rho_water, gravity, rhog, mass, mg, solver_parameters,
                    rotation, ncalls >>

(***************************************************************************)
(* The solver                                                              *)
(***************************************************************************)
Configure ==
    \/ \E v \in GravityInputs : SetGravity(v)
    \/ \E v \in RhoInputs : SetRhoWater(v)
    \/ \E v \in MassInputs \union {-40} : SetMass(v)
    \/ \E v \in CogInputs : SetGravityCenter(v)
    \/ \E v \in {-2, 0} : SetZg(v)
    \/ \E v \in ReltolInputs \union {[num |-> 0, den |-> 4], [num |-> 4, den |-> 4]} :
          SetReltol(v)
    \/ \E v \in {0, 2, 10} : SetThetaRelax(v)
    \/ \E v \in {0, 2, 20} : SetZRelax(v)
    \/ \E v \in 0..MaxItermax : SetMaxIterations(v)
    \/ \E v \in -1..MaxRestart : SetMaxRestart(v)
    \/ \E v \in BOOLEAN : SetAllowUnstable(v)
    \/ \E f \in ForceInputs : AddForce(f)
    \/ Reset

\* the steps of a running call
Run ==
    \/ DispExhausted
    \/ DispStep
    \/ EqGiveUp
    \/ \E rand \in RandomAngles \X RandomAngles : EqPass(rand)
    \/ Normalise

Solve ==
    \/ \E v \in MassInputs : CallSetDisplacement(v)
    \/ \E b \in BOOLEAN : CallEquilibrate(b)
    \/ Run

\* no clipping is in progress
StitchIdle == [pc |-> "idle", boundary_edges |-> << >>, input |-> << >>, initV |-> 0,
               iV |-> 0, polygon |-> << >>, polygons |-> << >>]

\* clip_by_plane is not running
ClipIdle == [pc |-> "idle", run |-> 0, again |-> "none", V |-> << >>, F |-> << >>,
             plane |-> [normal |-> << 0, 0, 1 >>, e |-> 0], abs_tol |-> 0,
             get_polygon |-> FALSE, input |-> << >>, how |-> "none", err |-> "none",
             V_ext |-> << >>, F_ext |-> << >>, keepV |-> << >>, keepF |-> << >>,
             rings |-> << >>, first |-> << >>,
             out |-> [V |-> << >>, F |-> << >>, polygons |-> << >>, n |-> 0]]
\* no geometric function is being evaluated
CalcIdle == [op |-> "none", done |-> FALSE, plane |-> [normal |-> << 0, 0, 1 >>, e |-> 0],
             point |-> << 0, 0, 0 >>, tol |-> 0, shapes |-> {}, polygons |-> << >>,
             sums |-> << >>, out |-> [outcome |-> "none", dist |-> 0, position |-> 0]]

Init ==
    /\ \E cog \in CogInputs, arg \in InitMassInputs : Construct(cog, arg)
    /\ stitch = StitchIdle
    /\ clip = ClipIdle
    /\ calc = CalcIdle

Next == Configure \/ Solve

Spec == Init /\ [][Next]_vars

(***************************************************************************)
(* clip_by_plane: stitching of the boundary edges into polygons            *)
(***************************************************************************)
Vertices == 1..MaxVertices

\* the boundary edges a cut emits, as the dict boundary_edges: one outgoing
\* and one incoming edge at every vertex it joins, in loops of three edges or more
BoundaryInputs ==
    UNION { { f \in [S -> S] : /\ \A v \in S : f[v] # v /\ f[f[v]] # v
                               /\ \A v, w \in S : f[v] = f[w] => v = w }
            : S \in (SUBSET Vertices) \ { {} } }

\* dict.pop(key) on a dict that has the key: the dict that is left
Popped(d, key) == [k \in (DOMAIN d) \ {key} |-> d[k]]

\* initV = boundary_edges.keys()[0]; polygons = []
StitchBegin ==
    /\ stitch.pc = "start"
    /\ IF DOMAIN stitch.boundary_edges = {}
       THEN stitch' = [stitch EXCEPT !.pc = "IndexError"]
       ELSE \E key \in DOMAIN stitch.boundary_edges :
               stitch' = [stitch EXCEPT !.initV = key, !.polygons = << >>, !.pc = "outer"]
    /\ UNCHANGED << hvars, clip, calc >>

\* while len(boundary_edges) > 0: polygon = [initV]; iV = initV
StitchOuter ==
    /\ stitch.pc = "outer"
    /\ IF DOMAIN stitch.boundary_edges = {}
       THEN stitch' = [stitch EXCEPT !.pc = "done"]
       ELSE stitch' = [stitch EXCEPT !.polygon = << stitch.initV >>,
                                     !.iV = stitch.initV,
                                     !.pc = "inner"]
    /\ UNCHANGED << hvars, clip, calc >>

\* while not closed: one edge is popped and followed
StitchInner ==
    /\ stitch.pc = "inner"
    /\ IF stitch.iV \notin DOMAIN stitch.boundary_edges
       THEN stitch' = [stitch EXCEPT !.pc = "KeyError"]
       ELSE LET iVtarget == stitch.boundary_edges[stitch.iV]
                grown == Append(stitch.polygon, iVtarget)
            IN stitch' = [stitch EXCEPT
                            !.boundary_edges = Popped(@, stitch.iV),
                            !.polygon = grown,
                            !.iV = iVtarget,
                            !.polygons = IF iVtarget = stitch.initV
                                         THEN Append(@, grown) ELSE @,
                            !.pc = IF iVtarget = stitch.initV THEN "outer" ELSE "inner"]
    /\ UNCHANGED << hvars, clip, calc >>

\* a cut has emitted its boundary edges; the solver is left as constructed
StitchInit ==
    /\ Construct(<< 0, 0, -2 >>, 0)
    /\ \E edges \in BoundaryInputs :
          stitch = [StitchIdle EXCEPT !.pc = "start", !.boundary_edges = edges,
                                      !.input = edges]
    /\ clip = ClipIdle
    /\ calc = CalcIdle

StitchNext == StitchBegin \/ StitchOuter \/ StitchInner

SpecStitch == StitchInit /\ [][StitchNext]_vars

(***************************************************************************)
(* clip_by_plane: the cut of a mesh by a plane                             *)
(*                                                                         *)
(* V is the array of the vertices, F the array of the faces: four vertex   *)
(* numbers counted from 1, a triangle repeating its first one.  Inside the *)
(* function vertex ids are counted from 0, and so are they here: At reads  *)
(* an array at an id.                                                      *)
(***************************************************************************)
At(arr, id) == arr[id + 1]

\* a[mask] of numpy: the entries of a where mask holds, in order
RECURSIVE Compress(_, _)
Compress(a, mask) ==
    IF a = << >> THEN << >>
    ELSE (IF Head(mask) THEN << Head(a) >> ELSE << >>) \o Compress(Tail(a), Tail(mask))

\* a[pattern] of numpy, the pattern holding positions counted from 0
Pick(a, pattern) == [k \in 1..Len(pattern) |-> At(a, pattern[k])]

\* np.roll(a, -n)
Roll(a, n) == [k \in 1..Len(a) |-> a[((k - 1 + n) % Len(a)) + 1]]

\* lst[iv - 1] of a python list: position -1 is the last one
Prev(lst, iv) == IF iv = 0 THEN lst[Len(lst)] ELSE lst[iv]

\* lst.insert(iv, x)
Insert(lst, iv, x) == SubSeq(lst, 1, iv) \o << x >> \o SubSeq(lst, iv + 1, Len(lst))

\* d[k] = v on a dict
DictSet(d, k, v) == [x \in (DOMAIN d) \union {k} |-> IF x = k THEN v ELSE d[x]]

\* the two patterns that split a pentagon
triangle == << 2, 3, 4, 2 >>
\* the quadrangle took the middle kept vertex and left the last one out
quadrangleSlip == << 1, 2, 3, 5 >>
quadrangle == << 1, 2, 4, 5 >>

\* positions = np.dot(V, plane.normal) - plane.e
positions(V, plane) == [i \in 1..Len(V) |-> Dot(V[i], plane.normal) - plane.e]

\* the vertices kept were those strictly under the tolerance
keepVStrict(V, plane, abs_tol) == [i \in 1..Len(V) |-> positions(V, plane)[i] < abs_tol]

\* keepV = positions <= abs_tol
keepV(V, plane, abs_tol) == [i \in 1..Len(V) |-> positions(V, plane)[i] <= abs_tol]

\* V_below_mask = positions < -abs_tol
V_below_mask(V, plane, abs_tol) == [i \in 1..Len(V) |-> positions(V, plane)[i] < 0 - abs_tol]

\* boundary_V_mask = np.fabs(positions) <= abs_tol
boundary_V_mask(V, plane, abs_tol) ==
    [i \in 1..Len(V) |-> Abs(positions(V, plane)[i]) <= abs_tol]

\* np.sum(mask)
NbTrue(mask) == Cardinality({i \in 1..Len(mask) : mask[i]})

\* nb: 3 for a row of triangle_mask (F[:,0] == F[:,-1]), 4 for another one
NbOfRow(row) == IF row[1] = row[4] THEN 3 ELSE 4

\* the number of vertices of a face the mask holds of
NbByFace(row, mask) == Cardinality({k \in 1..NbOfRow(row) : mask[row[k]]})

\* keepF before the clipped faces are added: every vertex of the face is kept
FullyKept(row, kept) == NbByFace(row, kept) = NbOfRow(row)

\* clipped_mask: not every vertex is kept and one at least is below the band
clipped_mask(row, kept, below) ==
    NbByFace(row, kept) < NbOfRow(row) /\ NbByFace(row, below) > 0

\* boundary_faces_mask: a kept face with exactly two vertices in the band
boundary_faces_mask(row, kept, onb) ==
    NbByFace(row, onb) = 2 /\ NbByFace(row, kept) = NbOfRow(row)

\* the loop over the boundary faces: the first vertex in the band decides the edge
RECURSIVE BoundaryFaces(_, _, _, _, _)
BoundaryFaces(be, F, kept, onb, i) ==
    LET row == F[i]
        nb == NbOfRow(row)
        face_w == [k \in 1..nb |-> row[k] - 1]
        m == [k \in 1..nb |-> onb[row[k]]]
        index == CHOOSE k \in 1..nb : m[k] /\ \A j \in 1..(k - 1) : ~m[j]
        edge == IF Prev(m, index - 1)
                THEN DictSet(be, face_w[index], Prev(face_w, index - 1))
                ELSE DictSet(be, face_w[index + 1], face_w[index])
    IN IF i > Len(F) THEN be
       ELSE BoundaryFaces(IF boundary_faces_mask(row, kept, onb) THEN edge ELSE be,
                          F, kept, onb, i + 1)

\* get_edge_intersection_by_plane; the inputs keep the quotient exact
get_edge_intersection_by_plane(plane, V0, V1) ==
    LET d0 == Dot(plane.normal, V0) - plane.e
        d1 == Dot(plane.normal, V1) - plane.e
    IN [k \in 1..3 |-> V0[k] + (d0 * (V1[k] - V0[k])) \div (d0 - d1)]

\* the intersection was looked for under the first target of iV0 only
HasEdgeFirstOnly(edges, a, b) == a \in DOMAIN edges /\ edges[a][1][1] = b

\* the dict edges: edges[iV0] = [[targets], [ids of the intersections]]
HasEdge(edges, a, b) ==
    a \in DOMAIN edges /\ \E j \in 1..Len(edges[a][1]) : edges[a][1][j] = b
PutEdge(edges, a, b, q) ==
    IF a \in DOMAIN edges
    THEN IF HasEdge(edges, a, b) THEN edges
         ELSE [edges EXCEPT ![a] = << Append(@[1], b), Append(@[2], q) >>]
    ELSE DictSet(edges, a, << << b >>, << q >> >>)

\* "for iv in range(nb-1, -1, -1)": an intersection is inserted wherever the
\* walk passes from a kept vertex to a discarded one or back
RECURSIVE Walk(_, _, _, _, _)
Walk(V, plane, nv, w, iv) ==
    LET iV0 == Prev(w.face_lst, iv)
        iV1 == w.face_lst[iv + 1]
        known == HasEdge(w.edges, iV0, iV1)
        targets == w.edges[iV0][1]
        cached == w.edges[iV0][2][CHOOSE j \in 1..Len(targets) :
                      targets[j] = iV1 /\ \A i \in 1..(j - 1) : targets[i] # iV1]
        id_Q == IF known THEN cached ELSE nv + Len(w.newV)
        step == IF Prev(w.pos_lst, iv) = w.pos_lst[iv + 1] THEN w
                ELSE [face_lst |-> Insert(w.face_lst, iv, id_Q),
                      pos_lst |-> Insert(w.pos_lst, iv, TRUE),
                      edges |-> PutEdge(PutEdge(w.edges, iV0, iV1, id_Q), iV1, iV0, id_Q),
                      newV |-> IF known THEN w.newV
                               ELSE Append(w.newV, get_edge_intersection_by_plane(
                                                       plane, At(V, iV0), At(V, iV1)))]
    IN IF iv < 0 THEN w ELSE Walk(V, plane, nv, step, iv - 1)

\* the boundary edge of a clipped face: its first new vertex decides it
EmitEdge(be, ring, nv) ==
    LET news == {k \in 1..Len(ring) : ring[k] >= nv}
        index == CHOOSE k \in news : \A j \in news : k <= j
    IN IF news = {} THEN [d |-> be, err |-> "none"]
       ELSE IF Prev(ring, index - 1) >= nv
       THEN [d |-> DictSet(be, ring[index], Prev(ring, index - 1)), err |-> "none"]
       ELSE IF index + 1 > Len(ring) THEN [d |-> be, err |-> "IndexError"]
       ELSE [d |-> DictSet(be, ring[index + 1], ring[index]), err |-> "none"]

\* one turn of the loop on the faces to clip; id counts the rows of F from 1
ClipFace(V, plane, kept, nv, get_polygon, st, id) ==
    LET row == st.F[id]
        nb == NbOfRow(row)
        w == Walk(V, plane, nv,
                  [face_lst |-> [k \in 1..nb |-> row[k] - 1],
                   pos_lst |-> [k \in 1..nb |-> kept[row[k]]],
                   edges |-> st.edges, newV |-> st.newV],
                  nb - 1)
        face_w == w.face_lst
        pos == w.pos_lst
        ring == Compress(face_w, pos)
        emitted == IF get_polygon THEN EmitEdge(st.boundary_edges, ring, nv)
                   ELSE [d |-> st.boundary_edges, err |-> "none"]
        n_roll == (CHOOSE k \in 1..Len(pos) : ~pos[k] /\ \A j \in 1..(k - 1) : pos[j]) - 1
        rolled == Roll(face_w, n_roll)
        clipped_face == IF Len(ring) = 3 THEN Append(ring, ring[1])
                        ELSE IF Len(ring) = 5 THEN Pick(rolled, triangle)
                        ELSE ring
        walked == [st EXCEPT !.edges = w.edges, !.newV = w.newV,
                             !.rings = Append(@, [face |-> id, ring |-> ring])]
    IN IF emitted.err # "none" THEN [walked EXCEPT !.err = emitted.err]
       ELSE IF Len(clipped_face) # 4
       THEN [walked EXCEPT !.boundary_edges = emitted.d, !.err = "ValueError"]
       ELSE [walked EXCEPT
                !.boundary_edges = emitted.d,
                !.newF = IF Len(ring) = 5 THEN Append(@, Pick(rolled, quadrangle)) ELSE @,
                !.F = [@ EXCEPT ![id] = [k \in 1..4 |-> clipped_face[k] + 1]]]

RECURSIVE ClipLoop(_, _, _, _, _, _, _, _)
ClipLoop(V, plane, kept, below, nv, get_polygon, st, id) ==
    IF id > Len(st.F) \/ st.err # "none" THEN st
    ELSE ClipLoop(V, plane, kept, below, nv, get_polygon,
                  IF clipped_mask(st.F[id], kept, below)
                  THEN ClipFace(V, plane, kept, nv, get_polygon, st, id) ELSE st,
                  id + 1)

\* lines 86 to 289: the classification, the short cuts and the loop on the faces.
\* out is what the call hands back, n the length of the tuple
ClipBegin ==
    /\ clip.pc = "call"
    /\ LET V == clip.V
           F == clip.F
           nv == Len(V)
           kept == keepV(V, clip.plane, clip.abs_tol)
           below == V_below_mask(V, clip.plane, clip.abs_tol)
           onb == boundary_V_mask(V, clip.plane, clip.abs_tol)
           nb_kept_V == NbTrue(kept)
           st == ClipLoop(V, clip.plane, kept, below, nv, clip.get_polygon,
                          [F |-> F, newV |-> << >>, newF |-> << >>, edges |-> << >>,
                           boundary_edges |-> IF clip.get_polygon
                                              THEN BoundaryFaces(<< >>, F, kept, onb, 1)
                                              ELSE << >>,
                           rings |-> << >>, err |-> "none"],
                          1)
           starts == clip.get_polygon /\ V # << >> /\ nb_kept_V \notin {0, nv}
                     /\ (\A i \in 1..Len(F), k \in 1..4 : F[i][k] \in 1..nv)
                     /\ st.err = "none"
       IN /\ clip' =
                IF V = << >>
                THEN [clip EXCEPT !.pc = "raised", !.err = "AttributeError"]
                ELSE IF nb_kept_V = nv
                THEN [clip EXCEPT !.pc = "returned", !.how = "whole",
                                  !.out = [V |-> V, F |-> F, polygons |-> << >>, n |-> 2]]
                ELSE IF nb_kept_V = 0
                THEN [clip EXCEPT !.pc = "returned", !.how = "empty",
                                  !.out = [V |-> << >>, F |-> << >>,
                                           polygons |-> << >>, n |-> 2]]
                ELSE IF \E i \in 1..Len(F), k \in 1..4 : F[i][k] \notin 1..nv
                THEN [clip EXCEPT !.pc = "raised", !.err = "IndexError"]
                ELSE IF st.err # "none"
                THEN [clip EXCEPT !.pc = "raised", !.err = st.err, !.F = st.F,
                                  !.rings = st.rings]
                ELSE [clip EXCEPT
                        !.pc = IF clip.get_polygon THEN "stitching" ELSE "extract",
                        !.how = "cut",
                        !.F = st.F,
                        !.rings = st.rings,
                        !.V_ext = V \o st.newV,
                        !.F_ext = st.F \o [j \in 1..Len(st.newF) |->
                                             [k \in 1..4 |-> st.newF[j][k] + 1]],
                        !.keepV = kept \o [j \in 1..Len(st.newV) |-> TRUE],
                        !.keepF = [i \in 1..Len(F) |->
                                      FullyKept(F[i], kept) \/ clipped_mask(F[i], kept, below)]
                                  \o [j \in 1..Len(st.newF) |-> TRUE]]
          /\ stitch' = IF starts
                       THEN [StitchIdle EXCEPT !.pc = "start",
                                               !.boundary_edges = st.boundary_edges,
                                               !.input = st.boundary_edges]
                       ELSE stitch
    /\ UNCHANGED << hvars, calc >>

\* the stitching raised: so does the call
ClipStitchRaised ==
    /\ clip.pc = "stitching"
    /\ stitch.pc \in {"KeyError", "IndexError"}
    /\ clip' = [clip EXCEPT !.pc = "raised", !.err = stitch.pc]
    /\ UNCHANGED << hvars, stitch, calc >>

\* newID_V: a kept vertex gets its rank among the kept ones, another one its own id
newID_V(kept) ==
    [i \in 1..Len(kept) |-> IF kept[i] THEN Cardinality({j \in 1..(i - 1) : kept[j]})
                            ELSE i - 1]

\* lines 307 to 331: the kept mesh is extracted and its faces are renumbered
ClipExtract ==
    /\ \/ clip.pc = "extract"
       \/ clip.pc = "stitching" /\ stitch.pc = "done"
    /\ LET rows == Compress(clip.F_ext, clip.keepF)
           clipped_V == Compress(clip.V_ext, clip.keepV)
           clipped_F == [r \in 1..Len(rows) |->
                            [k \in 1..4 |-> At(newID_V(clip.keepV), rows[r][k] - 1) + 1]]
       IN clip' = [clip EXCEPT
                     !.pc = "returned",
                     !.out = IF clip.get_polygon
                             THEN [V |-> clipped_V, F |-> clipped_F,
                                   polygons |-> stitch.polygons, n |-> 3]
                             ELSE [V |-> clipped_V, F |-> clipped_F,
                                   polygons |-> << >>, n |-> 2]]
    /\ UNCHANGED << hvars, stitch, calc >>

\* the caller runs the function again with the same plane and tolerance: on
\* the very arrays it passed ("same") or on the mesh it got back ("returned")
ClipAgain(on) ==
    /\ clip.run = 1
    /\ clip.pc = "returned" \/ (clip.pc = "raised" /\ on = "same")
    /\ clip' = [ClipIdle EXCEPT
                  !.pc = "call", !.run = 2, !.again = on,
                  !.V = IF on = "same" THEN clip.V ELSE clip.out.V,
                  !.F = IF on = "same" THEN clip.F ELSE clip.out.F,
                  !.plane = clip.plane, !.abs_tol = clip.abs_tol,
                  !.get_polygon = clip.get_polygon, !.input = clip.input,
                  !.first = [pc |-> clip.pc, how |-> clip.how, err |-> clip.err,
                             out |-> clip.out, rings |-> clip.rings]]
    /\ stitch' = StitchIdle
    /\ UNCHANGED << hvars, calc >>

\* the meshes handed to clip_by_plane, the plane being z = 0: four vertices over
\* the corners of a square, at any of three levels, joined by one quadrangle or
\* by two triangles sharing a diagonal, which they run along in opposite
\* directions or in the same one; a closed box, a closed tetrahedron with
\* its apex up or down, and two boxes side by side (normals outward)
MeshInputs ==
    LET Levels == {-2, 0, 2}
        Corners(z) ==
            << << 0, 0, z[1] >>, << 4, 0, z[2] >>, << 4, 4, z[3] >>, << 0, 4, z[4] >> >>
        OneQuad == << << 1, 2, 3, 4 >> >>
        TwoTriangles == << << 1, 2, 3, 1 >>, << 1, 3, 4, 1 >> >>
        Flipped == << << 1, 2, 3, 1 >>, << 1, 4, 3, 1 >> >>
        BoxV(x, lo, hi) ==
            << << x, 0, lo >>, << x + 4, 0, lo >>, << x + 4, 4, lo >>, << x, 4, lo >>,
               << x, 0, hi >>, << x + 4, 0, hi >>, << x + 4, 4, hi >>, << x, 4, hi >> >>
        BoxF(n) ==
            << << n + 1, n + 4, n + 3, n + 2 >>, << n + 5, n + 6, n + 7, n + 8 >>,
               << n + 1, n + 2, n + 6, n + 5 >>, << n + 2, n + 3, n + 7, n + 6 >>,
               << n + 3, n + 4, n + 8, n + 7 >>, << n + 4, n + 1, n + 5, n + 8 >> >>
        TetraV(lo, hi) ==
            << << 0, 0, lo >>, << 4, 0, lo >>, << 0, 4, lo >>, << 0, 0, hi >> >>
        TetraF == << << 1, 3, 2, 1 >>, << 1, 2, 4, 1 >>, << 2, 3, 4, 2 >>, << 3, 1, 4, 3 >> >>
    IN { [V |-> Corners(z), F |-> f] :
            z \in [1..4 -> Levels], f \in {OneQuad, TwoTriangles, Flipped} }
       \union { [V |-> BoxV(0, -2, hi), F |-> BoxF(0)] : hi \in {0, 2} }
       \union { [V |-> TetraV(-2, 2), F |-> TetraF],
                [V |-> TetraV(2, -2), F |-> TetraF],
                [V |-> BoxV(0, -2, 2) \o BoxV(8, -2, 2), F |-> BoxF(0) \o BoxF(8)] }
\* the tolerances abs_tol
TolInputs == {1, 2}

ClipInit ==
    /\ Construct(<< 0, 0, -2 >>, 0)
    /\ stitch = StitchIdle
    /\ calc = CalcIdle
    /\ \E m \in MeshInputs, tol \in TolInputs, gp \in BOOLEAN :
          clip = [ClipIdle EXCEPT !.pc = "call", !.run = 1, !.V = m.V, !.F = m.F,
                                  !.abs_tol = tol, !.get_polygon = gp, !.input = m]

ClipNext ==
    \/ ClipBegin
    \/ StitchBegin
    \/ StitchOuter
    \/ StitchInner
    \/ ClipStitchRaised
    \/ ClipExtract
    \/ \E on \in {"same", "returned"} : ClipAgain(on)

SpecClip == ClipInit /\ [][ClipNext]_vars

(***************************************************************************)
(* Plane.point_distance and the waterplane sums, as functions              *)
(***************************************************************************)
\* Plane.point_distance(point, tol): [dist, position], or the exception of a
\* return that reads a position no branch has assigned
point_distance(plane, point, tol) ==
    LET dist == Dot(plane.normal, point)
    IN IF Abs(dist) < tol THEN [outcome |-> "returned", dist |-> dist, position |-> 0]
       ELSE IF dist < plane.e THEN [outcome |-> "returned", dist |-> dist, position |-> -1]
       ELSE IF dist > plane.e THEN [outcome |-> "returned", dist |-> dist, position |-> 1]
       ELSE [outcome |-> "UnboundLocalError", dist |-> dist, position |-> 0]

\* sigma0 /= 2 ... sigma5 /= -12: the divisors of the six sums
SigmaDivisors == << 2, 6, -6, 24, 12, -12 >>

\* a boundary polygon of the waterplane, counter-clockwise, its last vertex
\* repeating the first: a rectangle or a right triangle with its legs along the
\* axes, of corner (x0, y0), width w and height h
ShapePolygon(s) ==
    IF s.kind = "rectangle"
    THEN << << s.x0, s.y0, 0 >>, << s.x0 + s.w, s.y0, 0 >>, << s.x0 + s.w, s.y0 + s.h, 0 >>,
            << s.x0, s.y0 + s.h, 0 >>, << s.x0, s.y0, 0 >> >>
    ELSE << << s.x0, s.y0, 0 >>, << s.x0 + s.w, s.y0, 0 >>, << s.x0, s.y0 + s.h, 0 >>,
            << s.x0, s.y0, 0 >> >>
ShapeInputs == [kind : {"rectangle", "triangle"}, x0 : -2..1, y0 : -2..1, w : 1..2, h : 1..2]
\* the waterplanes: one polygon, or two rectangles
WaterplaneInputs ==
    { << s >> : s \in ShapeInputs }
    \union { << s, t >> : s, t \in {r \in ShapeInputs : r.kind = "rectangle"} }

\* the planes, points and tolerance handed to point_distance
PlaneInputs == [normal : {<< 0, 0, 1 >>, << 0, 1, 0 >>}, e : {-2, 0, 2}]
PointInputs == {<< 1, y, z >> : y \in -3..3, z \in -3..3}

\* the sums of the waterplane polygons are accumulated
CalcSigma ==
    /\ calc.op = "sigma" /\ ~calc.done
    /\ calc' = [calc EXCEPT !.done = TRUE, !.sums = SigmaSums(calc.polygons, 1)]
    /\ UNCHANGED << hvars, stitch, clip >>

\* point_distance is called
CalcDistance ==
    /\ calc.op = "distance" /\ ~calc.done
    /\ calc' = [calc EXCEPT !.done = TRUE,
                            !.out = point_distance(calc.plane, calc.point, calc.tol)]
    /\ UNCHANGED << hvars, stitch, clip >>

CalcInit ==
    /\ Construct(<< 0, 0, -2 >>, 0)
    /\ stitch = StitchIdle
    /\ clip = ClipIdle
    /\ \/ \E wp \in WaterplaneInputs :
             calc = [CalcIdle EXCEPT !.op = "sigma",
                                     !.shapes = {wp[j] : j \in 1..Len(wp)},
                                     !.polygons = [j \in 1..Len(wp) |-> ShapePolygon(wp[j])]]
       \/ \E plane \in PlaneInputs, point \in PointInputs :
             calc = [CalcIdle EXCEPT !.op = "distance", !.plane = plane, !.point = point,
                                     !.tol = 1]

CalcNext == CalcSigma \/ CalcDistance

SpecCalc == CalcInit /\ [][CalcNext]_vars

(***************************************************************************)
(* Properties of equilibrate                                               *)
(***************************************************************************)
\* the call has left its loop with a code and is about to re-centre and return
AtReturn == pc = "norm"
\* equilibrate has just returned: nothing was called since
Returned == pc = "idle" /\ ret.op = "equilibrate" /\ ret.outcome = "returned"
\* the hydrostatics were evaluated at the present pose
EvaluatedHere == hs_data.clipper = << mesh >>
\* the convergence test on the present state
ConvergedNow ==
    IsAtEquilibrium(hs_data, gravity_center, mg, rhog, additional_forces,
                    solver_parameters.reltol)

\* C1: equilibrate returns only the codes 0, 1 or 2, and it returns 1 only if at
\* the last pose at which it evaluated the hydrostatics the three residual
\* components normalised by (mg, mg*breadth, mg*lwl) were below reltol and both
\* gm_x and gm_y were strictly positive.
C1_CodesAndStableSuccess ==
    /\ Returned => ret.code \in {0, 1, 2}
    /\ AtReturn => loc.code \in {0, 1, 2}
    /\ (AtReturn /\ loc.code = 1) =>
          /\ EvaluatedHere
          /\ \A k \in 1..3 :
                Abs(Residual(hs_data, gravity_center, mg, rhog, additional_forces)[k])
                    * solver_parameters.reltol.den
                  < solver_parameters.reltol.num * Abs(Scale(hs_data, mg)[k])
          /\ hs_data.gm_x > 0
          /\ hs_data.gm_y > 0
\* a stable success is about to be returned
C1_Witness == AtReturn /\ loc.code = 1 /\ loc.iter > 0

\* C2: for every accepted solver configuration and every behaviour of the
\* residual, equilibrate terminates: the iteration cap and the restart cap bound
\* the number of balancing iterations, at most max_iterations of them for the
\* first start and for each of the max_restart restarts.
C2_IterationsBounded ==
    pc = "eq" =>
        loc.iter <= (solver_parameters.max_nb_restart + 1) * solver_parameters.itermax

\* C3: equilibrate returns the failure code 0 exactly when a restart is required
\* while max_restart random restarts have already been performed in this call;
\* it never gives up with fewer restarts performed and never performs more.
C3_FailureAfterMaxRestart ==
    /\ pc \in {"eq", "norm"} => loc.nb_restart <= solver_parameters.max_nb_restart
    /\ (AtReturn /\ loc.code = 0) => loc.nb_restart = solver_parameters.max_nb_restart

\* C4: at a converged unstable configuration, with stop_at_unstable enabled
\* equilibrate returns code 2 at that configuration; with it disabled it never
\* returns code 2, does not accept the configuration, and its very next step is
\* a random restart with no balancing correction, or the failure code 0.
C4_StateOk ==
    /\ (AtReturn /\ loc.code = 2) =>
          /\ solver_parameters.stop_at_unstable
          /\ EvaluatedHere /\ ConvergedNow
          /\ hs_data.gm_x <= 0 \/ hs_data.gm_y <= 0
    /\ (pc = "eq" /\ loc.unstable_config) =>
          /\ ~solver_parameters.stop_at_unstable
          /\ EvaluatedHere /\ ConvergedNow
          /\ hs_data.gm_x <= 0 \/ hs_data.gm_y <= 0
    /\ (pc = "eq" /\ ConvergedNow /\ EvaluatedHere /\ loc.iter > 0
          /\ (hs_data.gm_x <= 0 \/ hs_data.gm_y <= 0)) => loc.unstable_config
C4_NextStepOk ==
    (pc = "eq" /\ loc.unstable_config) =>
        \/ /\ pc' = "norm" /\ loc'.code = 0
           /\ mesh' = mesh /\ gravity_center' = gravity_center
        \/ /\ loc'.nb_restart = loc.nb_restart + 1
           /\ \E rand \in RandomAngles \X RandomAngles :
                 LET R == RotMatrix(<< rand[1], rand[2], 0 >>)
                 IN /\ mesh' = [i \in DOMAIN mesh |-> MatVec(R, mesh[i])]
                    /\ gravity_center' = MatVec(R, gravity_center)
           /\ pc' = "norm" => loc'.code = 1
C4_UnstableEquilibrium == []C4_StateOk /\ [][C4_NextStepOk]_vars
\* a converged unstable configuration was refused and a restart is left
C4_Witness == pc = "eq" /\ loc.unstable_config /\ CanRestart /\ loc.dz # 0

\* C5: the solver never iterates with a mass above the mass of water displaced
\* by the fully submerged mesh: the sinking condition is reported before any
\* translation or rotation, whatever setter calls and options led there.
C5_NeverIteratesSinking ==
    pc \in {"disp", "eq", "norm"} => ~IsSinking(mass, rho_water, mesh)

\* C6: when equilibrate returns a converged code (1 or 2), the state it leaves
\* behind after the final re-centring still satisfies is_at_equilibrium().
C6_ReturnedStateConverged ==
    (Returned /\ ret.code \in {1, 2}) => ConvergedNow

\* C7: after equilibrate returns, the horizontal gravity-centre coordinates are
\* zero, and the mesh vertices, the stored buoyancy centre and the point of
\* every additional force were translated by -(xg, yg), the gravity centre just
\* before the normalisation; z-coordinates and force values are untouched.
C7_Shifted(p, q) ==
    /\ q[1] = p[1] - gravity_center[1]
    /\ q[2] = p[2] - gravity_center[2]
    /\ q[3] = p[3]
C7_StepOk ==
    AtReturn =>
        /\ Returned'
        /\ gravity_center' = << 0, 0, gravity_center[3] >>
        /\ DOMAIN mesh' = DOMAIN mesh
        /\ \A i \in DOMAIN mesh : C7_Shifted(mesh[i], mesh'[i])
        /\ C7_Shifted(hs_data.buoy_center, hs_data'.buoy_center)
        /\ DOMAIN additional_forces' = DOMAIN additional_forces
        /\ \A i \in DOMAIN additional_forces :
              /\ C7_Shifted(additional_forces[i].point, additional_forces'[i].point)
              /\ additional_forces'[i].value = additional_forces[i].value
              /\ additional_forces'[i].mode = additional_forces[i].mode
C7_Normalised ==
    /\ [](Returned => gravity_center[1] = 0 /\ gravity_center[2] = 0)
    /\ [][C7_StepOk]_vars
\* equilibrate returned after a re-centring that moved a force and the hull
C7_Witness ==
    /\ Returned
    /\ additional_forces # << >>
    /\ hs_data.clipper # NoClipper
    /\ hs_data.clipper[1] # mesh
    /\ hs_data.clipper[1][1][1] # mesh[1][1]
    /\ hs_data.clipper[1][1][2] # mesh[1][2]

\* C8: no solver step changes the value of a force in absolute mode, only its
\* point; for a force in relative mode every rotation applied to the body by a
\* step that completes is applied to its point and its value, translations only
\* to its point.
Transpose(R) == [i \in 1..3 |-> [j \in 1..3 |-> R[j][i]]]
C8_StepRotation == MatMul(rotation', Transpose(rotation))
C8_Arm(f, m) == << f.point[1] - m[1][1], f.point[2] - m[1][2], f.point[3] - m[1][3] >>
C8_StepOk ==
    (pc # "idle" /\ pc' # "error") =>
        /\ DOMAIN additional_forces' = DOMAIN additional_forces
        /\ \A i \in DOMAIN additional_forces :
              LET f == additional_forces[i]
                  g == additional_forces'[i]
              IN /\ g.mode = f.mode
                 /\ f.mode = "absolute" => g.value = f.value
                 /\ f.mode = "relative" => g.value = MatVec(C8_StepRotation, f.value)
                 /\ C8_Arm(g, mesh') = MatVec(C8_StepRotation, C8_Arm(f, mesh))
C9_HydrostaticsOfCurrentPose ==
    (pc = "idle" /\ hs_data.clipper # NoClipper) =>
        /\ hs_data.clipper[1] = mesh
        /\ hs_data.buoy_center = ClippedCenter(mesh)

(***************************************************************************)
(* Properties of the stitching                                             *)
(***************************************************************************)
\* the vertices of the loop of d through v
RECURSIVE Orbit(_, _, _)
Orbit(d, v, seen) == IF v \in seen THEN seen ELSE Orbit(d, d[v], seen \cup {v})
\* the number of loops of d
NumCycles(d) == Cardinality({ Orbit(d, v, {}) : v \in DOMAIN d })
\* the places of the edge leaving v in the polygons
EdgeUses(polygons, d, v) ==
    { << j, i >> \in (1..Len(polygons)) \X (1..MaxVertices) :
         /\ i < Len(polygons[j])
         /\ polygons[j][i] = v
         /\ polygons[j][i + 1] = d[v] }

\* C10: when the emitted boundary edges form k >= 1 vertex-disjoint directed
\* cycles, the stitching returns exactly k closed loops: it does not fail, every
\* edge is used in exactly one loop, each loop starts and ends at the same
\* vertex, and zero loops are never returned.
C10_StitchesEveryLoop ==
    /\ stitch.pc \notin {"KeyError", "IndexError"}
    /\ stitch.pc = "done" =>
          /\ Len(stitch.polygons) = NumCycles(stitch.input)
          /\ Len(stitch.polygons) >= 1
          /\ \A j \in 1..Len(stitch.polygons) :
                stitch.polygons[j][1] = stitch.polygons[j][Len(stitch.polygons[j])]
          /\ \A v \in DOMAIN stitch.input :
                Cardinality(EdgeUses(stitch.polygons, stitch.input, v)) = 1

(***************************************************************************)
(* Properties of clip_by_plane                                             *)
(***************************************************************************)
\* C11: every vertex id of a boundary loop the call returns is an index of the
\* returned vertex array and designates there the point the loop edge was
\* emitted for
C11_LoopIdsIndexClippedVertices ==
    (clip.pc = "returned" /\ clip.out.n = 3) =>
        \A j \in 1..Len(clip.out.polygons) : \A k \in 1..Len(clip.out.polygons[j]) :
            LET id == clip.out.polygons[j][k]
            IN id < Len(clip.out.V) /\ At(clip.out.V, id) = At(clip.V_ext, id)

\* the arrays a call was handed: those of the first call, or the mesh the
\* first call returned
ClipArgs == IF clip.run = 1 THEN clip.input
            ELSE [V |-> clip.first.out.V, F |-> clip.first.out.F]
\* the signed distance of a vertex to the plane is within the tolerance or negative
OnKeptSide(p) == Dot(p, clip.plane.normal) - clip.plane.e <= clip.abs_tol
\* the call is over
ClipOver == clip.pc \in {"returned", "raised"} /\ (clip.run = 1 \/ clip.again = "returned")

\* C12: when every vertex of the input is on the kept side the call returns the
\* vertex and face arrays it was handed, creates no vertex and alters no face;
\* when no vertex is kept it returns an empty mesh; no face is clipped in either case
C12_OneSidedShortCut ==
    (ClipOver /\ ClipArgs.V # << >>) =>
        /\ (\A i \in 1..Len(ClipArgs.V) : OnKeptSide(ClipArgs.V[i])) =>
              /\ clip.pc = "returned"
              /\ clip.out.V = ClipArgs.V /\ clip.out.F = ClipArgs.F
              /\ clip.F = ClipArgs.F /\ clip.V_ext = << >> /\ clip.rings = << >>
        /\ (\A i \in 1..Len(ClipArgs.V) : ~OnKeptSide(ClipArgs.V[i])) =>
              /\ clip.pc = "returned"
              /\ clip.out.V = << >> /\ clip.out.F = << >>
              /\ clip.F = ClipArgs.F /\ clip.V_ext = << >> /\ clip.rings = << >>

\* a mesh with a vertex at the very tolerance and none beyond has been returned whole
C12_Witness ==
    /\ clip.pc = "returned" /\ clip.run = 1
    /\ \A i \in 1..Len(clip.input.V) : OnKeptSide(clip.input.V[i])
    /\ \E i \in 1..Len(clip.input.V) : clip.input.V[i][3] = clip.abs_tol
    /\ \E i \in 1..Len(clip.input.V) : clip.input.V[i][3] < 0
    /\ clip.out.V = clip.input.V /\ clip.out.F = clip.input.F

\* the boundary loops a finished call returned, as a set
Loops(out) == {out.polygons[j] : j \in 1..Len(out.polygons)}

\* C13: a second call with the same plane and tolerance, on the same arguments
\* or on the mesh the first call returned, returns as the first one did, with
\* the same number of faces and the same set of boundary loops
C13_ClippingIdempotent ==
    (/\ clip.run = 2 /\ clip.pc \in {"returned", "raised"}
     /\ clip.first.pc = "returned" /\ clip.first.how = "cut") =>
        /\ clip.pc = "returned"
        /\ Len(clip.out.F) = Len(clip.first.out.F)
        /\ clip.out.n = clip.first.out.n
        /\ Loops(clip.out) = Loops(clip.first.out)

\* the directed edges of a face row: three for a triangle, four for a quadrangle
RowEdges(row) ==
    IF row[1] = row[4]
    THEN {<< row[1], row[2] >>, << row[2], row[3] >>, << row[3], row[1] >>}
    ELSE {<< row[1], row[2] >>, << row[2], row[3] >>, << row[3], row[4] >>,
          << row[4], row[1] >>}
\* the point of the segment from a kept vertex p to a discarded one d that lies
\* on the plane
OnPlane(p, d) ==
    LET dp == Dot(p, clip.plane.normal) - clip.plane.e
        dd == Dot(d, clip.plane.normal) - clip.plane.e
    IN [k \in 1..3 |-> p[k] + ((d[k] - p[k]) * (0 - dp)) \div (dd - dp)]
\* the first call was handed one quadrangle, one vertex of which is beyond the
\* tolerance and one at least under the band, and it has returned
C14_Pentagon ==
    /\ clip.pc = "returned" /\ clip.run = 1
    /\ clip.input.F = << << 1, 2, 3, 4 >> >>
    /\ Cardinality({i \in 1..4 : ~OnKeptSide(clip.input.V[i])}) = 1
    /\ \E i \in 1..4 : Dot(clip.input.V[i], clip.plane.normal) - clip.plane.e
                          < 0 - clip.abs_tol

RowVertices(row) == {row[k] : k \in 1..4}
Renumbered(i) == i - Cardinality({j \in 1..(i - 1) : ~OnKeptSide(clip.input.V[j])})
\* the first call has cut its mesh and returned
C19_Cut == clip.run = 1 /\ clip.pc = "returned" /\ clip.how = "cut"

\* C19: a face with all its vertices kept is returned as it was, up to the
\* renumbering; a face with a kept and a discarded vertex is clipped and gives
\* one face of the output at least; no kept vertex of a face of the input is
\* left without a face of the output
C19_MixedFacesClipped ==
    C19_Cut =>
        LET P == clip.input.V
            F == clip.input.F
            whole == {f \in 1..Len(F) : \A i \in RowVertices(F[f]) : OnKeptSide(P[i])}
            mixed == {f \in 1..Len(F) :
                        /\ \E i \in RowVertices(F[f]) : OnKeptSide(P[i])
                        /\ \E i \in RowVertices(F[f]) : ~OnKeptSide(P[i])}
        IN /\ \A f \in whole :
                 \E r \in 1..Len(clip.out.F) :
                    clip.out.F[r] = [k \in 1..4 |-> Renumbered(F[f][k])]
           /\ \A f \in mixed : \E j \in 1..Len(clip.rings) : clip.rings[j].face = f
           /\ Len(clip.out.F) >= Cardinality(whole) + Cardinality(mixed)
           /\ \A f \in 1..Len(F) : \A i \in RowVertices(F[f]) :
                 OnKeptSide(P[i]) =>
                    \E r \in 1..Len(clip.out.F) : Renumbered(i) \in RowVertices(clip.out.F[r])

\* C20: the polygon a face selected for clipping is clipped into has 3, 4 or 5
\* vertices; with 3 it is stored in the four slots of its row with the first
\* vertex repeated, with 4 as a quadrangle
C20_ClippedPolygonSize ==
    (clip.run = 1 /\ clip.pc \in {"returned", "raised"}) =>
        /\ clip.err # "ValueError"
        /\ \A j \in 1..Len(clip.rings) :
              LET ring == clip.rings[j].ring
                  row == clip.F[clip.rings[j].face]
              IN /\ Len(ring) \in 3..5
                 /\ Len(ring) = 3 => row = << ring[1] + 1, ring[2] + 1, ring[3] + 1,
                                              ring[1] + 1 >>
                 /\ Len(ring) = 4 => row = [k \in 1..4 |-> ring[k] + 1]

\* the edges of a face of the input that join a kept vertex to a discarded
\* one, the kept vertex first, whichever way the face runs along them
StraddlingEdges(f) ==
    LET row == clip.input.F[f]
        nb == IF row[1] = row[4] THEN 3 ELSE 4
    IN {e \in {<< row[k], row[(k % nb) + 1] >> : k \in 1..nb}
              \union {<< row[(k % nb) + 1], row[k] >> : k \in 1..nb} :
           OnKeptSide(clip.input.V[e[1]]) /\ ~OnKeptSide(clip.input.V[e[2]])}
\* the vertex that stands for the discarded end b next to the kept end a in the
\* j-th clipped polygon: after a when the face runs from a to b, before it otherwise
EdgeVertex(j, a, b) ==
    LET ring == clip.rings[j].ring
        row == clip.input.F[clip.rings[j].face]
        nb == IF row[1] = row[4] THEN 3 ELSE 4
        n == Len(ring)
        p == CHOOSE k \in 1..n : ring[k] = a - 1
    IN IF \E k \in 1..nb : row[k] = a /\ row[(k % nb) + 1] = b
       THEN ring[(p % n) + 1]
       ELSE ring[((p + n - 2) % n) + 1]

\* C21: in one call every edge with its ends on opposite sides gets one new
\* vertex, its intersection with the plane, whichever face meets it first and
\* whichever way the faces run along it: the clipped faces at the edge all hold
\* that vertex, distinct edges get distinct vertices, and as many vertices are
\* created as the clipped faces have such edges
C21_OneVertexPerStraddlingEdge ==
    C19_Cut =>
        LET nv == Len(clip.input.V)
            J == 1..Len(clip.rings)
            E(j) == StraddlingEdges(clip.rings[j].face)
        IN /\ Len(clip.V_ext) - nv = Cardinality(UNION {E(j) : j \in J})
           /\ \A j \in J : \A e \in E(j) :
                 /\ EdgeVertex(j, e[1], e[2]) >= nv
                 /\ At(clip.V_ext, EdgeVertex(j, e[1], e[2]))
                       = OnPlane(clip.input.V[e[1]], clip.input.V[e[2]])
           /\ \A i, j \in J : \A e \in E(i) : \A g \in E(j) :
                 (e = g) <=> (EdgeVertex(i, e[1], e[2]) = EdgeVertex(j, g[1], g[2]))

\* two clipped faces that run the same way along a common edge hold its one vertex
C21_Witness ==
    /\ C19_Cut
    /\ clip.input.F = << << 1, 2, 3, 1 >>, << 1, 4, 3, 1 >> >>
    /\ Len(clip.rings) = 2
    /\ StraddlingEdges(1) \intersect StraddlingEdges(2) # {}
    /\ Len(clip.V_ext) - Len(clip.input.V) = 3

\* C29: the call leaves the arrays V and F of the caller as they were passed,
\* on the short cuts and on a cut
C29_ArgumentsUntouched ==
    (clip.run = 1 /\ clip.pc \in {"returned", "raised"}) =>
        clip.V = clip.input.V /\ clip.F = clip.input.F

(***************************************************************************)
(* Properties of the setters                                               *)
(***************************************************************************)
\* C15: an out-of-range value is rejected when it is assigned, so that the
\* solver never holds one: reltol stays in (0, 1), z_relax in (0, 1),
\* theta_relax in (0, 10), max_iterations >= 1, max_restart >= 0 and the mass
\* is not negative
C15_OutOfRangeRejected ==
    /\ solver_parameters.reltol.num > 0
    /\ solver_parameters.reltol.num < solver_parameters.reltol.den
    /\ solver_parameters.z_relax > 0 /\ solver_parameters.z_relax < 20
    /\ solver_parameters.theta_relax > 0 /\ solver_parameters.theta_relax < 10
    /\ solver_parameters.itermax >= 1
    /\ solver_parameters.max_nb_restart >= 0
    /\ mass >= 0

\* C17: the assignment of mass, gravity centre, zg, rho_water or gravity
\* searches a position of equilibrium for the new value: when the setter has
\* returned on a body that no call had moved, the body is at equilibrium or its
\* mesh has left the initial pose
C17_SetterSearchesEquilibrium ==
    (pc = "idle" /\ ncalls = 0 /\ ret = IntrinsicReturn) =>
        (ConvergedNow \/ mesh # InitMesh)

(***************************************************************************)
(* Properties of Plane.point_distance and of the waterplane sums           *)
(***************************************************************************)
\* 24 times the integrals of 1, x, y, xy, x^2 and y^2 over a shape, from the
\* integrals over the shape moved to the origin
Moments24(s) ==
    LET r == s.kind = "rectangle"
        A == IF r THEN 24 * s.w * s.h ELSE 12 * s.w * s.h
        U == IF r THEN 12 * s.w * s.w * s.h ELSE 4 * s.w * s.w * s.h
        V == IF r THEN 12 * s.w * s.h * s.h ELSE 4 * s.w * s.h * s.h
        UV == IF r THEN 6 * s.w * s.w * s.h * s.h ELSE s.w * s.w * s.h * s.h
        UU == IF r THEN 8 * s.w * s.w * s.w * s.h ELSE 2 * s.w * s.w * s.w * s.h
        VV == IF r THEN 8 * s.w * s.h * s.h * s.h ELSE 2 * s.w * s.h * s.h * s.h
    IN << A,
          U + s.x0 * A,
          V + s.y0 * A,
          UV + s.x0 * V + s.y0 * U + s.x0 * s.y0 * A,
          UU + 2 * s.x0 * U + s.x0 * s.x0 * A,
          VV + 2 * s.y0 * V + s.y0 * s.y0 * A >>
RECURSIVE SumMoments24(_)
SumMoments24(S) ==
    IF S = {} THEN Zero6
    ELSE LET s == CHOOSE x \in S : TRUE IN Add6(Moments24(s), SumMoments24(S \ {s}))
\* the rectangles of the waterplane are mirrored into one another by both axes
Symmetric(S) ==
    /\ \A s \in S : s.kind = "rectangle"
    /\ {[s EXCEPT !.x0 = 0 - (s.x0 + s.w)] : s \in S} = S
    /\ {[s EXCEPT !.y0 = 0 - (s.y0 + s.h)] : s \in S} = S
\* the sums of a waterplane of distinct polygons have been accumulated
C16_Summed == calc.op = "sigma" /\ calc.done /\ Cardinality(calc.shapes) = Len(calc.polygons)

\* C16: the scaled sums sigma0..sigma5 of closed counter-clockwise polygons are
\* the area, the first moments in x and y, the product moment and the second
\* moments in x and y of the waterplane, several polygons adding up; for a
\* waterplane symmetric about both axes sigma1, sigma2 and sigma3 are zero
C16_SigmaAreMoments ==
    C16_Summed =>
        /\ \A k \in 1..6 :
              24 * calc.sums[k] = SigmaDivisors[k] * SumMoments24(calc.shapes)[k]
        /\ Symmetric(calc.shapes) =>
              calc.sums[2] = 0 /\ calc.sums[3] = 0 /\ calc.sums[4] = 0

\* the sums of two rectangles symmetric about both axes have been accumulated
C16_Witness ==
    /\ C16_Summed
    /\ Cardinality(calc.shapes) = 2
    /\ Symmetric(calc.shapes)
    /\ calc.sums[1] > 0 /\ calc.sums[5] > 0

\* C18: point_distance returns the signed distance of the point to the plane
\* n.x = e and one position: on (0) when the distance is within tol, else below
\* (-1) when n.p < e and above (1) when n.p > e; it always returns
C18_ClassifiesAgainstPlane ==
    (calc.op = "distance" /\ calc.done) =>
        LET d == Dot(calc.plane.normal, calc.point) - calc.plane.e
        IN /\ calc.out.outcome = "returned"
           /\ calc.out.dist = d
           /\ calc.out.position = IF Abs(d) < calc.tol THEN 0 ELSE IF d < 0 THEN -1 ELSE 1

(***************************************************************************)
(* Further properties of the solver                                        *)
(***************************************************************************)
\* the balancing iterations counted since the start of the call or since its
\* most recent random restart
SinceRestart == loc.iter - loc.restart_iter

\* C22: in equilibrate, the number of balancing iterations performed since the
\* start of the call or since the most recent random restart never exceeds
\* max_iterations, whether that restart was forced by instability or by the
\* iteration budget.
C22_BudgetPerRestart ==
    pc = "eq" => SinceRestart <= solver_parameters.itermax

\* v is u clamped to [-cap, cap]: u itself within the cap, the cap with the sign
\* of u beyond it
Clamped(v, u, cap) ==
    /\ Abs(v) <= cap
    /\ Abs(u) <= cap => v = u
    /\ u > cap => v = cap
    /\ u < 0 - cap => v = 0 - cap

\* C23: every correction a pass of set_displacement or of equilibrate is about to
\* apply is the computed one clamped component by component, |dz| <= z_relax and
\* |thetax|, |thetay| <= radians(theta_relax), with the sign of the computed
\* correction; the pass that restarts applies no correction besides its random
\* rotation.
C23_CorrectionsClamped ==
    /\ pc \in {"disp", "eq"} =>
          /\ Clamped(loc.dz, loc.solved[1], solver_parameters.z_relax)
          /\ Clamped(loc.thetax, loc.solved[2], Radians(solver_parameters.theta_relax))
          /\ Clamped(loc.thetay, loc.solved[3], Radians(solver_parameters.theta_relax))
    /\ pc = "disp" => loc.thetax = 0 /\ loc.thetay = 0
    /\ (pc = "eq" /\ NeedRestart) => PassDz = 0 /\ PassThetax = 0 /\ PassThetay = 0
\* a pass of equilibrate has cut a negative roll correction down to the cap
C23_Witness ==
    /\ pc = "eq"
    /\ loc.solved[2] < 0 - Radians(solver_parameters.theta_relax)
    /\ loc.thetax = 0 - Radians(solver_parameters.theta_relax)

\* the corrections of equilibrate as applied, after relaxation
Applied(l) == << l.dz, l.thetax, l.thetay >>
\* a balancing pass follows another one of the same start, and the correction
\* along axis k has changed sign from the one to the other
SignChange(k) ==
    /\ pc = "eq" /\ pc' = "eq"
    /\ loc'.nb_restart = loc.nb_restart
    /\ loc'.iter = loc.iter + 1
    /\ loc.solved[k] * loc'.solved[k] < 0

\* C24: during balancing, whenever the correction along one axis (dz, thetax or
\* thetay) changes sign between two successive iterations, the relax cap of that
\* axis is reduced to the minimum of half its previous value and the magnitude
\* of the correction jump, and the reduced cap clamps the following corrections
\* of that axis.
C24_CapShrinksOnSignChange ==
    [][\A k \in 1..3 :
          SignChange(k) =>
              2 * RelaxCaps[k]' = Min2(RelaxCaps[k], 2 * Abs(Applied(loc')[k] - Applied(loc)[k]))]_vars

\* C26: after construction and after any sequence of assignments to gravity,
\* rho_water and mass and of set_displacement calls, raising ones included, the
\* cached products agree with their factors: _rhog = _rho_water * _gravity and
\* _mg = _mass * _gravity.
C26_ProductsConsistent ==
    /\ rhog = rho_water * gravity
    /\ mg = mass * gravity
\* set_displacement has stored a mass after gravity was assigned another value
C26_Witness ==
    /\ gravity = 5
    /\ pc = "idle"
    /\ ret.op = "set_displacement"
    /\ mg = mass * 5

\* the residual property read in the present state
ResidualNow == Residual(hs_data, gravity_center, mg, rhog, additional_forces)

\* C25: in every reachable state the residual [Fz, Mx, My] is the component-wise
\* sum of Force.hs_force over the buoyancy force of get_buoyancy_force, the
\* gravity force of get_gravity_force and every force registered with
\* add_force; a force that is added changes the residual by its hs_force.
C25_ResidualSumsForces ==
    LET all == << get_buoyancy_force, get_gravity_force >> \o additional_forces
    IN ResidualNow = SumHsForces(all, 1)
\* equilibrate iterates on a body that carries an added force with a moment
C25_Witness ==
    /\ pc = "eq"
    /\ loc.iter > 0
    /\ Len(additional_forces) = 1
    /\ hs_force(additional_forces[1])[2] # 0
    /\ ResidualNow[1] # 0

\* the step is a property assignment that raises ValueError or AssertionError
SetterRaises ==
    /\ nsets' = nsets + 1
    /\ ret'.op \in {"intrinsic", "setter"}
    /\ ret'.outcome \in {"ValueError", "AssertionError"}

\* C27: a property assignment that raises leaves the object unchanged: after the
\* ValueError of the mass setter for a sinking body, or the AssertionError of
\* the gravity_center setter or of a solver-parameter setter, the stored mass,
\* the weight _mg, the gravity centre, the backup gravity centre and the solver
\* parameters are the same as before the call.
C27_RaisingSetterChangesNothing ==
    [][SetterRaises =>
          UNCHANGED << mass, mg, gravity_center, backup, solver_parameters >>]_vars

\* C28: reset() restores the initial pose: after any sequence of set_displacement
\* and equilibrate calls it leaves the mesh equal to the mesh given at
\* construction, the accumulated rotation equal to the identity and the gravity
\* centre equal to the value the user supplied last, to the constructor or to
\* the gravity_center setter, whatever the solver applied in between.
C28_ResetRestoresPose ==
    [][Reset =>
          /\ mesh' = InitMesh
          /\ rotation' = Eye3
          /\ gravity_center' = backup.supplied]_vars

\* the object is as the constructor left it: nothing was called on it yet
Constructed == ret = NoReturn

\* C30: the mass property reads back the value that was supplied, in tons: after
\* Hydrostatics(mesh, mass=m) and after hs.mass = m for a non-sinking m, hs.mass
\* is m and the stored mass is 1000 * m kg; and the set_displacement(self.mass)
\* of equilibrate leaves the stored mass unchanged. A constructor argument is
\* counted in thousandths of a ton, so that 1000 * m kg is the argument itself.
C30_MassReadsBack ==
    [][/\ Constructed =>
             \E arg \in InitMassInputs :
                mass = IF arg = 0 THEN hs_data.disp_mass ELSE arg
       /\ \A m \in MassInputs :
             (SetMass(m) /\ ret'.outcome = "ok") => (mass' = 1000 * m /\ MassTons' = m)
       /\ CallEquilibrate(TRUE) => mass' = mass]_vars

====
